---------------------------- MODULE Spec2Model ----------------------------
(***************************************************************************)
(* Model of the RNS IRC bridge: the ingress role (rns-irc-client.py,       *)
(* IRCClientBridge / ClientBridgedConnection) and the egress role          *)
(* (rns-irc-server.py, IRCServerBridge / BridgedConnection).               *)
(*                                                                         *)
(* One behaviour models one process of one role; the variable role says    *)
(* which.  Every Python thread (the main thread, a _handle_client thread,  *)
(* a _tcp_to_rns_loop thread, a transport callback) is a member of Threads *)
(* with a program counter pc[t] and a stack stk[t] of return labels, so    *)
(* that stop() can be called from every place the code calls it from.      *)
(* The transport (RNS) and the sockets are the environment: their events   *)
(* are the actions named Env*.                                             *)
(***************************************************************************)
EXTENDS Naturals, Integers, Sequences, FiniteSets, TLC

\* ------------------------------------------------------------------ bounds
\* Connections (accepted sockets on ingress, inbound links on egress).
NumConns == 2
\* Events of the environment in one behaviour: connections arriving, links
\* reporting established, chunks arriving on a socket or a channel, and
\* failures (link closures, socket ends and errors, timeouts, signals).
MaxEvents == 4
\* Readiness callbacks the channel of one connection makes.
MaxCallbacks == 2
\* Longest configured destination hash (characters).
MaxHashChars == 5
\* RNS.Reticulum.TRUNCATED_HASHLENGTH in bits, scaled down (RNS has 128).
TruncatedHashLength == 16
\* Largest configured path_request_timeout, in ticks of a quarter second.
MaxPathTimeout == 4
\* time.sleep(0.5) of the path wait, in ticks of a quarter second.
PollTicks == 2
\* Largest configured announce_interval (the smallest is -1).
MaxInterval == 3
\* Periodic announces one behaviour follows.
MaxAnnounces == 2

Conns == 1..NumConns
NoThread == <<"none", 0, 0>>
Main == <<"main", 0, 0>>
HC(s) == <<"hc", s, 0>>
EST(s) == <<"est", s, 0>>
LC(s) == <<"lc", s, 0>>
PUMP(s) == <<"pump", s, 0>>
CB(s, k) == <<"cb", s, k>>
ConnThreads == ({"hc", "est", "lc", "pump"} \X Conns \X {0})
                  \cup ({"cb"} \X Conns \X (1..MaxCallbacks))
ANN == <<"ann", 0, 0>>
Threads == ConnThreads \cup {Main, ANN}

VARIABLES
  role,        \* "ingress" (rns-irc-client.py) or "egress" (rns-irc-server.py)
  exiting,     \* SystemExit raised by signal_handler: finally of start() runs
  pc,          \* pc[t]: the statement thread t is at
  stk,         \* stk[t]: return labels of the calls t is in
  bridgeRunning, \* IRC*Bridge.running
  listenOpen,  \* ingress: listen_sock is open
  clients,     \* IRC*Bridge.clients, a list of connections
  clientsLock, \* IRC*Bridge.clients_lock: the thread holding it, or NoThread
  snap,        \* shutdown(): the part of list(self.clients) still to visit
  created,     \* created[s]: the connection object of s has been constructed
  running,     \* conn.running
  ready,       \* conn._ready   (ingress)
  failed,      \* conn._failed  (ingress)
  buffer,      \* conn.buffer: "none", "open", "closed"
  bufLock,     \* conn._buffer_lock: the thread holding it, or NoThread
  sock,        \* conn.tcp_sock / conn.irc_sock: "none", "open", "closed"
  link,        \* conn.link.status: "none", "pending", "active", "closed"
  cbSet,       \* the link-closed callback of the link is registered
  lcFired,     \* the transport has fired the link-closed callback
  sockCloses,  \* number of close() calls made on the socket by stop()
  bufCloses,   \* number of buffer.close() calls made by stop()
  sockIn,      \* chunks recv() has returned to the pump, in order
  wbuf,        \* chunks written to the buffer and not yet flushed
  chanOut,     \* chunks flushed to the channel, in order
  rnsBuf,      \* chunks the channel delivered and nobody has read yet
  delivered,   \* number of chunks the channel has delivered
  sockOut,     \* chunks sendall() wrote to the socket, in order
  data,        \* data[t]: the local variable data of thread t
  callee,      \* callee[t]: the connection whose stop() thread t is executing
  stopCalled,  \* history: stop() has been called on the connection
  cbLink,      \* cbLink[t]: the link passed to the link-closed callback t executes
  events,      \* number of events the environment has produced
  destHash,    \* ingress: config["server_destination_hash"], a string
  reticulum,   \* ingress: RNS.Reticulum(...) has been initialised
  exitStatus,  \* the status the process exited with, or -1 while it runs
  pathTimeout, \* ingress: config "path_request_timeout", in ticks
  waited,      \* ingress: time.time() - start of the path wait, in ticks
  announceInterval, \* egress: config "announce_interval"
  announces,   \* egress: announce() calls made by start()
  reannounces  \* egress: announce() calls made by _announce_loop

connVars == <<created, running, ready, failed, buffer, bufLock, sock, link,
              cbSet, lcFired, sockCloses, bufCloses>>
dataVars == <<sockIn, wbuf, chanOut, rnsBuf, delivered, sockOut, data>>
bridgeVars == <<bridgeRunning, listenOpen, clients, clientsLock, snap>>
ctlVars == <<pc, stk, callee, cbLink, stopCalled>>
annVars == <<announceInterval, announces, reannounces>>
startVars == <<destHash, reticulum, exitStatus, pathTimeout, waited, annVars>>
procVars == <<role, exiting>>
vars == <<procVars, startVars, events, ctlVars, bridgeVars, connVars, dataVars>>

NoData == <<0, 0>>

\* ----------------------------------------------------------------- helpers
InList(l, c) == \E i \in 1..Len(l) : l[i] = c

\* list.remove(c): drops the first occurrence of c
RECURSIVE RemoveFirst(_, _)
RemoveFirst(l, c) == IF l = <<>> THEN <<>>
                     ELSE IF Head(l) = c THEN Tail(l)
                     ELSE <<Head(l)>> \o RemoveFirst(Tail(l), c)

\* control transfer
Goto(t, l) == /\ pc' = [pc EXCEPT ![t] = l]
              /\ UNCHANGED <<stk, callee, cbLink, stopCalled>>
Return(t) == /\ pc' = [pc EXCEPT ![t] = Head(stk[t])]
             /\ stk' = [stk EXCEPT ![t] = Tail(@)]
             /\ UNCHANGED <<callee, cbLink, stopCalled>>

\* The environment produces one more event.
Event == /\ events < MaxEvents
         /\ events' = events + 1

\* -------------------------------------------------------------- conn.stop()
\* stop(): if not self.running: return
StopReturnsAtOnce(c) == ~running[c]

\* stop() has been called on c (kept for the properties; the code has no
\* such field)
NoteStop(c) == stopCalled' = [stopCalled EXCEPT ![c] = TRUE]

\* Thread t calls c.stop() and continues at ret when it returns.  The test of
\* self.running is made at the call; when it passes, t is committed to the
\* rest of stop() (StopBody), which it runs as a later step.
CallStop(t, c, ret) ==
  /\ NoteStop(c)
  /\ IF StopReturnsAtOnce(c)
     THEN /\ pc' = [pc EXCEPT ![t] = ret]
          /\ UNCHANGED <<stk, callee, cbLink>>
     ELSE /\ pc' = [pc EXCEPT ![t] = "stop_body"]
          /\ stk' = [stk EXCEPT ![t] = <<ret>> \o @]
          /\ callee' = [callee EXCEPT ![t] = c]
          /\ UNCHANGED cbLink

\* c.stop() as the last statement of the function t is in
TailCallStop(t, c) ==
  /\ NoteStop(c)
  /\ IF StopReturnsAtOnce(c)
     THEN /\ pc' = [pc EXCEPT ![t] = Head(stk[t])]
          /\ stk' = [stk EXCEPT ![t] = Tail(@)]
          /\ UNCHANGED <<callee, cbLink>>
     ELSE /\ pc' = [pc EXCEPT ![t] = "stop_body"]
          /\ callee' = [callee EXCEPT ![t] = c]
          /\ UNCHANGED <<stk, cbLink>>

\* ------------------------------------------------------------ the transport
\* Where the link-closed callback of a link starts: conn.link_closed on
\* ingress (registered per connection), IRCServerBridge._link_closed on egress.
LinkClosedEntry == IF role = "ingress" THEN "lc_failed" ELSE "slc_lock"

\* The transport fires the link-closed callback of link l, once, if one is
\* registered, after thread t called l.teardown() as the last statement of
\* the function it is in: on t itself (t continues in the callback, which
\* returns to the caller of that function) or on a transport thread.
FireLinkClosed(t, l) ==
  IF cbSet[l] /\ ~lcFired[l]
  THEN /\ lcFired' = [lcFired EXCEPT ![l] = TRUE]
       /\ \/ /\ pc' = [pc EXCEPT ![t] = LinkClosedEntry]
             /\ cbLink' = [cbLink EXCEPT ![t] = l]
             /\ UNCHANGED <<stk, callee, stopCalled>>
          \/ /\ pc' = [pc EXCEPT ![LC(l)] = LinkClosedEntry, ![t] = Head(stk[t])]
             /\ stk' = [stk EXCEPT ![LC(l)] = <<"done">>, ![t] = Tail(@)]
             /\ cbLink' = [cbLink EXCEPT ![LC(l)] = l]
             /\ UNCHANGED <<callee, stopCalled>>
  ELSE /\ UNCHANGED lcFired
       /\ Return(t)

\* link.teardown() as the last statement of the function thread t is in
Teardown(t, l) ==
  /\ link' = [link EXCEPT ![l] = "closed"]
  /\ FireLinkClosed(t, l)

\* The rest of stop():
\* self.running = False; self.tcp_sock.close() (irc_sock on egress);
\* if self.buffer: self.buffer.close() (close() flushes what was written);
\* if self.link and self.link.status == RNS.Link.ACTIVE: self.link.teardown()
StopBody(t) ==
  /\ pc[t] = "stop_body"
  /\ LET c == callee[t] IN
     /\ running' = [running EXCEPT ![c] = FALSE]
     /\ sock' = [sock EXCEPT ![c] = "closed"]
     /\ sockCloses' = [sockCloses EXCEPT ![c] = @ + 1]
     /\ IF buffer[c] # "none"
        THEN /\ buffer' = [buffer EXCEPT ![c] = "closed"]
             /\ bufCloses' = [bufCloses EXCEPT ![c] = @ + 1]
             /\ IF buffer[c] = "open"
                THEN /\ chanOut' = [chanOut EXCEPT ![c] = @ \o wbuf[c]]
                     /\ wbuf' = [wbuf EXCEPT ![c] = <<>>]
                ELSE UNCHANGED <<chanOut, wbuf>>
        ELSE UNCHANGED <<buffer, bufCloses, chanOut, wbuf>>
     /\ IF link[c] = "active"
        THEN Teardown(t, c)
        ELSE Return(t) /\ UNCHANGED <<link, lcFired>>
  /\ UNCHANGED <<procVars, startVars, events, bridgeVars, created, ready, failed, bufLock,
                 cbSet, sockIn, rnsBuf, delivered, sockOut, data>>

\* The peer closes link l, or the link times out.
EnvLinkDown(l) ==
  /\ link[l] \in {"pending", "active"}
  /\ Event
  /\ link' = [link EXCEPT ![l] = "closed"]
  /\ IF cbSet[l] /\ ~lcFired[l]
     THEN /\ lcFired' = [lcFired EXCEPT ![l] = TRUE]
          /\ pc' = [pc EXCEPT ![LC(l)] = LinkClosedEntry]
          /\ stk' = [stk EXCEPT ![LC(l)] = <<"done">>]
          /\ cbLink' = [cbLink EXCEPT ![LC(l)] = l]
          /\ UNCHANGED <<callee, stopCalled>>
     ELSE UNCHANGED <<lcFired, ctlVars>>
  /\ UNCHANGED <<procVars, startVars, bridgeVars, dataVars, created, running, ready, failed,
                 buffer, bufLock, sock, cbSet, sockCloses, bufCloses>>

\* ------------------------------------- ingress: conn.link_closed(link)
\* The callback is the bound method of the connection made for the link.
ConnOfLink(l) == l

\* self._failed = True; self.stop()
LinkClosedClient(t) ==
  /\ pc[t] = "lc_failed"
  /\ failed' = [failed EXCEPT ![ConnOfLink(cbLink[t])] = TRUE]
  /\ TailCallStop(t, ConnOfLink(cbLink[t]))
  /\ UNCHANGED <<procVars, startVars, events, bridgeVars, dataVars, created, running, ready,
                 buffer, bufLock, sock, link, cbSet, lcFired, sockCloses,
                 bufCloses>>

\* ------------------------------- egress: IRCServerBridge._link_closed(link)
\* conn.link == link
\* A comparison that takes every connection for the owner of the link.
OwnsAnyLink(c, l) == TRUE

OwnsLink(c, l) == c = l

\* for conn in self.clients: if conn.link == link: ... break
\* (the first connection of the list owning l, or 0)
ScanClients(l) ==
  LET hits == {i \in 1..Len(clients) : OwnsLink(clients[i], l)}
  IN IF hits = {} THEN 0
     ELSE clients[CHOOSE i \in hits : \A j \in hits : i <= j]

\* with self.clients_lock: the scan; conn.stop() on the connection found;
\* self.clients.remove(conn); break.  The lock is kept while stop() runs.
LinkClosedLock(t) ==
  /\ pc[t] = "slc_lock"
  /\ clientsLock = NoThread
  /\ LET c == ScanClients(cbLink[t]) IN
     IF c = 0
     THEN Return(t) /\ UNCHANGED <<clients, clientsLock>>
     ELSE IF StopReturnsAtOnce(c)
     THEN /\ clients' = RemoveFirst(clients, c)
          /\ TailCallStop(t, c)
          /\ UNCHANGED clientsLock
     ELSE /\ CallStop(t, c, "slc_rm")
          /\ clientsLock' = t
          /\ UNCHANGED clients
  /\ UNCHANGED <<procVars, startVars, events, bridgeRunning, listenOpen, snap, connVars,
                 dataVars>>

\* self.clients.remove(conn); break, and the lock is released
LinkClosedRemove(t) ==
  /\ pc[t] = "slc_rm"
  /\ clients' = RemoveFirst(clients, callee[t])
  /\ clientsLock' = NoThread
  /\ Return(t)
  /\ UNCHANGED <<procVars, startVars, events, bridgeRunning, listenOpen, snap, connVars,
                 dataVars>>

\* --------------------------------------------------- IRC*Bridge.shutdown()
\* SIGINT / SIGTERM: signal_handler calls bridge.shutdown():
\* self.running = False; self.listen_sock.close()
EnvSignal ==
  /\ pc[Main] = "serving"
  /\ Event
  /\ bridgeRunning' = FALSE
  /\ listenOpen' = FALSE
  /\ Goto(Main, "sd_lock")
  /\ UNCHANGED <<procVars, startVars, clients, clientsLock, snap, connVars, dataVars>>

\* with self.clients_lock: for conn in list(self.clients):
ShutdownLock ==
  /\ pc[Main] = "sd_lock"
  /\ clientsLock = NoThread
  /\ clientsLock' = Main
  /\ snap' = clients
  /\ Goto(Main, "sd_loop")
  /\ UNCHANGED <<procVars, startVars, events, bridgeRunning, listenOpen, clients, connVars,
                 dataVars>>

\* conn.stop() for the next connection of the snapshot
ShutdownLoop ==
  /\ pc[Main] = "sd_loop"
  /\ snap # <<>>
  /\ CallStop(Main, Head(snap), "sd_loop")
  /\ snap' = Tail(snap)
  /\ UNCHANGED <<procVars, startVars, events, bridgeRunning, listenOpen, clients, clientsLock,
                 connVars, dataVars>>

\* after the loop: self.clients.clear(), and the lock is released
ShutdownClear ==
  /\ pc[Main] = "sd_loop"
  /\ snap = <<>>
  /\ clients' = <<>>
  /\ clientsLock' = NoThread
  /\ Goto(Main, "sd_done")
  /\ UNCHANGED <<procVars, startVars, events, bridgeRunning, listenOpen, snap, connVars,
                 dataVars>>

\* sys.exit(0) at the end of signal_handler raises SystemExit inside the try
\* of start(), whose finally runs shutdown() again: self.running = False and
\* the listener closed
ShutdownAgain ==
  /\ pc[Main] = "sd_done"
  /\ ~exiting
  /\ exiting' = TRUE
  /\ bridgeRunning' = FALSE
  /\ listenOpen' = FALSE
  /\ Goto(Main, "sd_lock")
  /\ UNCHANGED <<role, startVars, events, clients, clientsLock, snap, connVars,
                 dataVars>>

\* A further SIGINT or SIGTERM while the main thread is between two
\* statements of shutdown(): signal_handler runs on the main thread, above
\* the interrupted frame, and calls bridge.shutdown() again.  The interrupted
\* frame does not resume before that call returns, and is unwound by the
\* SystemExit that follows it.
EnvSignalInShutdown ==
  /\ pc[Main] \in {"sd_lock", "sd_loop"}
  /\ Event
  /\ bridgeRunning' = FALSE
  /\ listenOpen' = FALSE
  /\ Goto(Main, "sd_lock")
  /\ UNCHANGED <<procVars, startVars, clients, clientsLock, snap, connVars,
                 dataVars>>

\* Connection s has arrived: its socket was accepted (ingress), its link
\* came in (egress).
Arrived(s) == IF role = "ingress" THEN pc[HC(s)] # "idle" ELSE link[s] # "none"

\* Connections arrive in the order of their numbers.
NextConn(s) == \A r \in Conns : r < s => Arrived(r)

\* --------------------------------- ingress: IRCClientBridge._handle_client
\* The accept loop (while self.running) accepts a client and starts a handler.
EnvAccept(s) ==
  /\ role = "ingress"
  /\ Event
  /\ bridgeRunning /\ listenOpen
  /\ pc[HC(s)] = "idle"
  /\ NextConn(s)
  /\ sock' = [sock EXCEPT ![s] = "open"]
  /\ Goto(HC(s), "hc_recall")
  /\ UNCHANGED <<procVars, startVars, bridgeVars, dataVars, created, running, ready,
                 failed, buffer, bufLock, link, cbSet, lcFired, sockCloses,
                 bufCloses>>

\* server_identity = RNS.Identity.recall(...); if not server_identity:
\* client_sock.close(); return
HandleRecallFails(s) ==
  /\ pc[HC(s)] = "hc_recall"
  /\ Event
  /\ sock' = [sock EXCEPT ![s] = "closed"]
  /\ Goto(HC(s), "hc_norecall")
  /\ UNCHANGED <<procVars, startVars, bridgeVars, dataVars, created, running, ready, failed,
                 buffer, bufLock, link, cbSet, lcFired, sockCloses, bufCloses>>

\* link = RNS.Link(server_destination); conn = ClientBridgedConnection(...)
\* (__init__: self.running = True, self.buffer = None, not ready, not failed);
\* with self.clients_lock: self.clients.append(conn); the link's established
\* and closed callbacks are set
HandleConnect(s) ==
  /\ pc[HC(s)] = "hc_recall"
  /\ clientsLock = NoThread
  /\ link' = [link EXCEPT ![s] = "pending"]
  /\ created' = [created EXCEPT ![s] = TRUE]
  /\ running' = [running EXCEPT ![s] = TRUE]
  /\ clients' = Append(clients, s)
  /\ cbSet' = [cbSet EXCEPT ![s] = TRUE]
  /\ Goto(HC(s), "hc_wait")
  /\ UNCHANGED <<procVars, startVars, events, bridgeRunning, listenOpen, clientsLock, snap,
                 dataVars, ready, failed, buffer, bufLock, sock, lcFired,
                 sockCloses, bufCloses>>

\* while not conn.is_ready() and not conn.is_failed() and time.time() - start
\* < timeout: time.sleep(0.1)
\* if not conn.is_ready(): conn.stop()
\* The wait ends because the connection is ready or failed ...
HandleWaitEnds(s) ==
  /\ pc[HC(s)] = "hc_wait"
  /\ ready[s] \/ failed[s]
  /\ IF ready[s] THEN Goto(HC(s), "hc_done") ELSE CallStop(HC(s), s, "hc_rm")
  /\ UNCHANGED <<procVars, startVars, events, bridgeVars, connVars, dataVars>>

\* ... or because the 30 s are over
HandleWaitTimesOut(s) ==
  /\ pc[HC(s)] = "hc_wait"
  /\ ~(ready[s] \/ failed[s])
  /\ Event
  /\ CallStop(HC(s), s, "hc_rm")
  /\ UNCHANGED <<procVars, startVars, bridgeVars, connVars, dataVars>>

\* with self.clients_lock: if conn in self.clients: self.clients.remove(conn)
HandleRemove(s) ==
  /\ pc[HC(s)] = "hc_rm"
  /\ clientsLock = NoThread
  /\ clients' = IF InList(clients, s) THEN RemoveFirst(clients, s) ELSE clients
  /\ Goto(HC(s), "hc_gaveup")
  /\ UNCHANGED <<procVars, startVars, events, bridgeRunning, listenOpen, clientsLock, snap,
                 connVars, dataVars>>

\* ------------------------- ingress: ClientBridgedConnection.link_established
\* The outbound link of s reports established; the transport calls the callback.
EnvLinkEstablished(s) ==
  /\ role = "ingress"
  /\ Event
  /\ link[s] = "pending"
  /\ cbSet[s]
  /\ link' = [link EXCEPT ![s] = "active"]
  /\ Goto(EST(s), "est_buf")
  /\ UNCHANGED <<procVars, startVars, bridgeVars, dataVars, created, running, ready,
                 failed, buffer, bufLock, sock, cbSet, lcFired, sockCloses,
                 bufCloses>>

\* self.buffer = RNS.Buffer.create_bidirectional_buffer(...)
CreateBuffer(s) == [buffer EXCEPT ![s] = "open"]

\* self.tcp_to_rns_thread = threading.Thread(...); self.tcp_to_rns_thread.start()
StartPump(s) == [pc EXCEPT ![PUMP(s)] = "loop"]

\* link_established: the buffer is created, the pump thread is started,
\* self._ready = True
Established(s) ==
  /\ pc[EST(s)] = "est_buf"
  /\ buffer' = CreateBuffer(s)
  /\ pc' = [StartPump(s) EXCEPT ![EST(s)] = "est_done"]
  /\ ready' = [ready EXCEPT ![s] = TRUE]
  /\ UNCHANGED <<stk, callee, cbLink, stopCalled>>
  /\ UNCHANGED <<procVars, startVars, events, bridgeVars, dataVars, created, running, failed,
                 bufLock, sock, link, cbSet, lcFired, sockCloses, bufCloses>>

\* --------------------------- egress: IRCServerBridge._link_established(link)
\* An inbound link reaches the established state; the transport calls the
\* destination's callback, which first sets the link's closed callback:
\* link.set_link_closed_callback(self._link_closed)
EnvInboundLink(s) ==
  /\ role = "egress"
  /\ Event
  /\ link[s] = "none"
  /\ NextConn(s)
  /\ link' = [link EXCEPT ![s] = "active"]
  /\ cbSet' = [cbSet EXCEPT ![s] = TRUE]
  /\ pc' = [pc EXCEPT ![EST(s)] = "sest_conn"]
  /\ stk' = [stk EXCEPT ![EST(s)] = <<"sest_noconn">>]
  /\ UNCHANGED <<callee, cbLink, stopCalled>>
  /\ UNCHANGED <<procVars, startVars, bridgeVars, dataVars, created, running, ready,
                 failed, buffer, bufLock, sock, lcFired, sockCloses, bufCloses>>

\* A connect failure that returns without tearing the link down.
ConnectFailedKeepsLink(s) ==
  /\ Return(EST(s))
  /\ UNCHANGED <<procVars, startVars, bridgeVars, connVars, dataVars>>

\* except Exception: link.teardown(); return
ConnectFailed(s) ==
  /\ Teardown(EST(s), s)
  /\ UNCHANGED <<procVars, startVars, bridgeVars, dataVars, created, running, ready, failed,
                 buffer, bufLock, sock, cbSet, sockCloses, bufCloses>>

\* irc_sock.connect(...) raises
ServerConnectFails(s) ==
  /\ pc[EST(s)] = "sest_conn"
  /\ Event
  /\ ConnectFailed(s)

\* irc_sock.connect(...) succeeds; channel = link.get_channel();
\* conn = BridgedConnection(link, irc_sock, channel)
\* (__init__: self.running = False, self.buffer = None);
\* with self.clients_lock: self.clients.append(conn)
ServerConnectOk(s) ==
  /\ pc[EST(s)] = "sest_conn"
  /\ clientsLock = NoThread
  /\ sock' = [sock EXCEPT ![s] = "open"]
  /\ created' = [created EXCEPT ![s] = TRUE]
  /\ running' = [running EXCEPT ![s] = FALSE]
  /\ clients' = Append(clients, s)
  /\ Goto(EST(s), "start_run")
  /\ UNCHANGED <<procVars, startVars, events, bridgeRunning, listenOpen, clientsLock, snap,
                 dataVars, ready, failed, buffer, bufLock, link, cbSet,
                 lcFired, sockCloses, bufCloses>>

\* conn.start(): self.running = True
StartRunning(s) ==
  /\ pc[EST(s)] = "start_run"
  /\ running' = [running EXCEPT ![s] = TRUE]
  /\ Goto(EST(s), "start_buf")
  /\ UNCHANGED <<procVars, startVars, events, bridgeVars, dataVars, created, ready, failed,
                 buffer, bufLock, sock, link, cbSet, lcFired, sockCloses,
                 bufCloses>>

\* conn.start(): the buffer is created and the pump thread is started
StartForwarding(s) ==
  /\ pc[EST(s)] = "start_buf"
  /\ buffer' = CreateBuffer(s)
  /\ pc' = [StartPump(s) EXCEPT ![EST(s)] = "sest_done"]
  /\ stk' = [stk EXCEPT ![EST(s)] = <<>>]
  /\ UNCHANGED <<callee, cbLink, stopCalled>>
  /\ UNCHANGED <<procVars, startVars, events, bridgeVars, dataVars, created, running, ready,
                 failed, bufLock, sock, link, cbSet, lcFired, sockCloses,
                 bufCloses>>

\* --------------------------------------------- conn._tcp_to_rns_loop (pump)
\* while self.running: data = sock.recv(4096) is called.  The loop ends when
\* running is false, and recv() raises on a socket closed before the call
\* (finally: self.stop() in both cases); otherwise recv() blocks.
PumpLoop(s) ==
  /\ pc[PUMP(s)] = "loop"
  /\ IF running[s] /\ sock[s] = "open"
     THEN Goto(PUMP(s), "recv_wait")
     ELSE CallStop(PUMP(s), s, "done")
  /\ UNCHANGED <<procVars, startVars, events, bridgeVars, connVars, dataVars>>

\* The chunk recv() returns: the next one of the connection's local socket.
RecvChunk(s) == <<s, Len(sockIn[s]) + 1>>

\* self.buffer.write(data)
BufferWrite(s, d) == [wbuf EXCEPT ![s] = Append(@, d)]

\* A flush that sends nothing.
BufferFlushLost(s) == chanOut

\* self.buffer.flush()
BufferFlush(s) == [chanOut EXCEPT ![s] = @ \o wbuf[s]]

\* A lock that everyone may take at any time.
BufferLockIgnored(s) == TRUE

\* with self._buffer_lock: the lock can be taken
BufferLockFree(s) == bufLock[s] = NoThread

\* recv() returns a non-empty chunk; with self._buffer_lock:
\* self.buffer.write(data)  (a closed buffer raises: the lock is released;
\* finally: self.stop())
EnvRecvData(s) ==
  /\ pc[PUMP(s)] = "recv_wait"
  /\ Event
  /\ BufferLockFree(s)
  /\ sockIn' = [sockIn EXCEPT ![s] = Append(@, RecvChunk(s))]
  /\ IF buffer[s] = "open"
     THEN /\ bufLock' = [bufLock EXCEPT ![s] = PUMP(s)]
          /\ wbuf' = BufferWrite(s, RecvChunk(s))
          /\ Goto(PUMP(s), "flush")
     ELSE /\ CallStop(PUMP(s), s, "done")
          /\ UNCHANGED <<bufLock, wbuf>>
  /\ UNCHANGED <<procVars, startVars, bridgeVars, created, running, ready, failed,
                 buffer, sock, link, cbSet, lcFired, sockCloses, bufCloses,
                 chanOut, rnsBuf, delivered, sockOut, data>>

\* A loop that ends without calling stop().
EnvRecvEndsQuietly(s) ==
  /\ pc[PUMP(s)] = "recv_wait"
  /\ Event
  /\ Goto(PUMP(s), "done")
  /\ UNCHANGED <<procVars, startVars, bridgeVars, connVars, dataVars>>

\* recv() returns b"" (if not data: break) or raises; finally: self.stop()
EnvRecvEnds(s) ==
  /\ pc[PUMP(s)] = "recv_wait"
  /\ Event
  /\ CallStop(PUMP(s), s, "done")
  /\ UNCHANGED <<procVars, startVars, bridgeVars, connVars, dataVars>>

\* self.buffer.flush(), and the lock is released; back to the loop test
PumpFlush(s) ==
  /\ pc[PUMP(s)] = "flush"
  /\ buffer[s] = "open"
  /\ chanOut' = BufferFlush(s)
  /\ wbuf' = [wbuf EXCEPT ![s] = <<>>]
  /\ bufLock' = [bufLock EXCEPT ![s] = NoThread]
  /\ Goto(PUMP(s), "loop")
  /\ UNCHANGED <<procVars, startVars, events, bridgeVars, created, running, ready, failed,
                 buffer, sock, link, cbSet, lcFired, sockCloses, bufCloses,
                 sockIn, rnsBuf, delivered, sockOut, data>>

\* self.buffer.flush() raises because the buffer was closed: the lock is
\* released; finally: self.stop()
PumpFlushClosed(s) ==
  /\ pc[PUMP(s)] = "flush"
  /\ buffer[s] # "open"
  /\ bufLock' = [bufLock EXCEPT ![s] = NoThread]
  /\ CallStop(PUMP(s), s, "done")
  /\ UNCHANGED <<procVars, startVars, events, bridgeVars, created, running, ready, failed,
                 buffer, sock, link, cbSet, lcFired, sockCloses, bufCloses,
                 dataVars>>

\* self.buffer.flush() raises because the channel fails
PumpFlushFails(s) ==
  /\ pc[PUMP(s)] = "flush"
  /\ buffer[s] = "open"
  /\ Event
  /\ bufLock' = [bufLock EXCEPT ![s] = NoThread]
  /\ CallStop(PUMP(s), s, "done")
  /\ UNCHANGED <<procVars, startVars, bridgeVars, created, running, ready, failed,
                 buffer, sock, link, cbSet, lcFired, sockCloses, bufCloses,
                 dataVars>>

\* ------------------------------------------------------ conn._rns_data_ready
\* The channel receives a chunk for the buffer's stream and calls the ready
\* callback, each call on a thread of its own.
EnvDeliver(s) ==
  /\ buffer[s] = "open"
  /\ link[s] = "active"
  /\ delivered[s] < MaxCallbacks
  /\ Event
  /\ LET k == delivered[s] + 1 IN
     /\ rnsBuf' = [rnsBuf EXCEPT ![s] = Append(@, <<s, k>>)]
     /\ delivered' = [delivered EXCEPT ![s] = k]
     /\ Goto(CB(s, k), "cb_read")
  /\ UNCHANGED <<procVars, startVars, bridgeVars, connVars, sockIn, wbuf, chanOut,
                 sockOut, data>>

\* if not self.running: return
\* with self._buffer_lock: data = self.buffer.read(ready_bytes)
\* (a closed buffer raises: except: self.stop())
ReadyRead(s, k) ==
  /\ pc[CB(s, k)] = "cb_read"
  /\ IF ~running[s]
     THEN /\ Goto(CB(s, k), "done")
          /\ UNCHANGED <<rnsBuf, data>>
     ELSE /\ BufferLockFree(s)
          /\ IF buffer[s] # "open"
             THEN /\ CallStop(CB(s, k), s, "done")
                  /\ UNCHANGED <<rnsBuf, data>>
             ELSE IF rnsBuf[s] = <<>>
             THEN /\ Goto(CB(s, k), "done")
                  /\ UNCHANGED <<rnsBuf, data>>
             ELSE /\ data' = [data EXCEPT ![CB(s, k)] = Head(rnsBuf[s])]
                  /\ rnsBuf' = [rnsBuf EXCEPT ![s] = Tail(@)]
                  /\ Goto(CB(s, k), "cb_send")
  /\ UNCHANGED <<procVars, startVars, events, bridgeVars, connVars, sockIn, wbuf, chanOut,
                 delivered, sockOut>>

\* if data: self.tcp_sock.sendall(data)
ReadySend(s, k) ==
  /\ pc[CB(s, k)] = "cb_send"
  /\ sock[s] = "open"
  /\ sockOut' = [sockOut EXCEPT ![s] = Append(@, data[CB(s, k)])]
  /\ data' = [data EXCEPT ![CB(s, k)] = NoData]
  /\ Goto(CB(s, k), "done")
  /\ UNCHANGED <<procVars, startVars, events, bridgeVars, connVars, sockIn, wbuf, chanOut,
                 rnsBuf, delivered>>

\* sendall() raises because the socket was closed: except: self.stop()
ReadySendClosed(s, k) ==
  /\ pc[CB(s, k)] = "cb_send"
  /\ sock[s] # "open"
  /\ data' = [data EXCEPT ![CB(s, k)] = NoData]
  /\ CallStop(CB(s, k), s, "done")
  /\ UNCHANGED <<procVars, startVars, events, bridgeVars, connVars, sockIn, wbuf, chanOut,
                 rnsBuf, delivered, sockOut>>

\* sendall() raises because the peer reset the connection
ReadySendFails(s, k) ==
  /\ pc[CB(s, k)] = "cb_send"
  /\ sock[s] = "open"
  /\ Event
  /\ data' = [data EXCEPT ![CB(s, k)] = NoData]
  /\ CallStop(CB(s, k), s, "done")
  /\ UNCHANGED <<procVars, startVars, bridgeVars, connVars, sockIn, wbuf, chanOut,
                 rnsBuf, delivered, sockOut>>

\* -------------------------------------------- ingress: IRCClientBridge.start
\* Characters a configured destination hash is made of: a hex digit, the two
\* separators start() removes, and a character that is no hex digit.
HashChars == {"a", ":", " ", "g"}

\* .replace(":", "").replace(" ", "")
RECURSIVE Replace(_, _)
Replace(str, ch) == IF str = <<>> THEN <<>>
                    ELSE IF Head(str) = ch THEN Replace(Tail(str), ch)
                    ELSE <<Head(str)>> \o Replace(Tail(str), ch)

\* dest_hex = self.config["server_destination_hash"].replace(":", "").replace(" ", "")
DestHex(str) == Replace(Replace(str, ":"), " ")

\* dest_len = (RNS.Reticulum.TRUNCATED_HASHLENGTH // 8) * 2
DestLen == (TruncatedHashLength \div 8) * 2

\* A test that lets a hash that is too long through.
LengthAtLeast(hex) == Len(hex) >= DestLen

\* if len(dest_hex) != dest_len: ... sys.exit(1)
LengthOk(hex) == Len(hex) = DestLen

\* bytes.fromhex(dest_hex) accepts hex digits only (it raises ValueError otherwise)
IsHex(hex) == \A i \in 1..Len(hex) : hex[i] = "a"

\* start(): self.running = True; the length test; bytes.fromhex.  A wrong
\* length is sys.exit(1); the ValueError of fromhex is not caught and ends
\* the process with status 1 as well.
StartParse ==
  /\ pc[Main] = "start"
  /\ bridgeRunning' = TRUE
  /\ IF LengthOk(DestHex(destHash)) /\ IsHex(DestHex(destHash))
     THEN Goto(Main, "rns_init") /\ UNCHANGED exitStatus
     ELSE Goto(Main, "exited") /\ exitStatus' = 1
  /\ UNCHANGED <<procVars, events, destHash, reticulum, pathTimeout, waited, annVars,
                 listenOpen, clients, clientsLock, snap, connVars, dataVars>>

\* self.reticulum = RNS.Reticulum(rns_configdir)
StartReticulum ==
  /\ pc[Main] = "rns_init"
  /\ reticulum' = TRUE
  /\ Goto(Main, "path")
  /\ UNCHANGED <<procVars, events, destHash, exitStatus, pathTimeout, waited, annVars,
                 bridgeVars, connVars, dataVars>>

\* RNS.Transport.has_path(...) is true, at once or while polling
StartPathFound ==
  /\ pc[Main] = "path"
  /\ Goto(Main, "listen")
  /\ UNCHANGED <<procVars, startVars, events, bridgeVars, connVars, dataVars>>

\* A test that allows one more sleep after the timeout has passed.
TimedOutLate(elapsed, timeout) == elapsed > timeout + PollTicks

\* if time.time() - start > timeout
TimedOut(elapsed, timeout) == elapsed > timeout

\* has_path is false; time.sleep(0.5); the timeout has not passed: the loop
\* tests has_path again
StartPathWaits ==
  /\ pc[Main] = "path"
  /\ waited' = waited + PollTicks
  /\ ~TimedOut(waited', pathTimeout)
  /\ UNCHANGED <<procVars, events, destHash, reticulum, exitStatus, pathTimeout, annVars,
                 ctlVars, bridgeVars, connVars, dataVars>>

\* has_path is false; time.sleep(0.5);
\* if time.time() - start > timeout: ... sys.exit(1)
StartPathTimesOut ==
  /\ pc[Main] = "path"
  /\ waited' = waited + PollTicks
  /\ TimedOut(waited', pathTimeout)
  /\ exitStatus' = 1
  /\ Goto(Main, "exited")
  /\ UNCHANGED <<procVars, events, destHash, reticulum, pathTimeout, annVars, bridgeVars,
                 connVars, dataVars>>

\* self.listen_sock = socket.socket(...); bind; listen(5); the accept loop
StartListen ==
  /\ pc[Main] = "listen"
  /\ listenOpen' = TRUE
  /\ Goto(Main, "serving")
  /\ UNCHANGED <<procVars, startVars, events, bridgeRunning, clients, clientsLock,
                 snap, connVars, dataVars>>

\* --------------------------------------------- egress: IRCServerBridge.start
\* start(): self.running = True; RNS.Reticulum(...); the identity and the
\* destination
ServerStart ==
  /\ pc[Main] = "sstart"
  /\ bridgeRunning' = TRUE
  /\ reticulum' = TRUE
  /\ Goto(Main, "s_announce")
  /\ UNCHANGED <<procVars, events, destHash, exitStatus, pathTimeout, waited,
                 annVars, listenOpen, clients, clientsLock, snap, connVars,
                 dataVars>>

\* self.destination.announce()
ServerAnnounce ==
  /\ pc[Main] = "s_announce"
  /\ announces' = announces + 1
  /\ Goto(Main, "s_thread")
  /\ UNCHANGED <<procVars, events, destHash, reticulum, exitStatus, pathTimeout,
                 waited, announceInterval, reannounces, bridgeVars, connVars,
                 dataVars>>

\* A test that takes an interval of 0 for a period.
PeriodicFromZero(interval) == interval >= 0

\* if announce_interval > 0
Periodic(interval) == interval > 0

\* if announce_interval > 0: the announce thread is started; the main loop
ServerStartLoop ==
  /\ pc[Main] = "s_thread"
  /\ pc' = [pc EXCEPT ![Main] = "serving",
                      ![ANN] = IF Periodic(announceInterval)
                               THEN "ann_loop" ELSE @]
  /\ UNCHANGED <<stk, callee, cbLink, stopCalled>>
  /\ UNCHANGED <<procVars, startVars, events, bridgeVars, connVars, dataVars>>

\* _announce_loop: while self.running
AnnounceLoop ==
  /\ pc[ANN] = "ann_loop"
  /\ Goto(ANN, IF bridgeRunning THEN "ann_sleep" ELSE "done")
  /\ UNCHANGED <<procVars, startVars, events, bridgeVars, connVars, dataVars>>

\* time.sleep(interval); if self.running and self.destination
AnnounceTest ==
  /\ pc[ANN] = "ann_sleep"
  /\ reannounces < MaxAnnounces
  /\ Goto(ANN, IF bridgeRunning THEN "ann_send" ELSE "ann_loop")
  /\ UNCHANGED <<procVars, startVars, events, bridgeVars, connVars, dataVars>>

\* self.destination.announce()
AnnounceSend ==
  /\ pc[ANN] = "ann_send"
  /\ reannounces' = reannounces + 1
  /\ Goto(ANN, "ann_loop")
  /\ UNCHANGED <<procVars, events, destHash, reticulum, exitStatus, pathTimeout,
                 waited, announceInterval, announces, bridgeVars, connVars,
                 dataVars>>

Init ==
  /\ role \in {"ingress", "egress"}
  /\ exiting = FALSE
  /\ events = 0
  /\ destHash = IF role = "ingress" THEN [i \in 1..DestLen |-> "a"] ELSE <<>>
  /\ reticulum = TRUE
  /\ exitStatus = -1
  /\ pathTimeout = 0
  /\ waited = 0
  /\ announceInterval = 0
  /\ announces = IF role = "egress" THEN 1 ELSE 0
  /\ reannounces = 0
  /\ pc = [t \in Threads |-> IF t = Main THEN "serving" ELSE "idle"]
  /\ stk = [t \in Threads |-> <<>>]
  /\ bridgeRunning = TRUE
  /\ listenOpen = (role = "ingress")
  /\ clients = <<>>
  /\ clientsLock = NoThread
  /\ snap = <<>>
  /\ created = [s \in Conns |-> FALSE]
  /\ running = [s \in Conns |-> FALSE]
  /\ ready = [s \in Conns |-> FALSE]
  /\ failed = [s \in Conns |-> FALSE]
  /\ buffer = [s \in Conns |-> "none"]
  /\ bufLock = [s \in Conns |-> NoThread]
  /\ sock = [s \in Conns |-> "none"]
  /\ link = [s \in Conns |-> "none"]
  /\ cbSet = [s \in Conns |-> FALSE]
  /\ lcFired = [s \in Conns |-> FALSE]
  /\ sockCloses = [s \in Conns |-> 0]
  /\ bufCloses = [s \in Conns |-> 0]
  /\ sockIn = [s \in Conns |-> <<>>]
  /\ wbuf = [s \in Conns |-> <<>>]
  /\ chanOut = [s \in Conns |-> <<>>]
  /\ rnsBuf = [s \in Conns |-> <<>>]
  /\ delivered = [s \in Conns |-> 0]
  /\ sockOut = [s \in Conns |-> <<>>]
  /\ data = [t \in Threads |-> NoData]
  /\ callee = [t \in Threads |-> 0]
  /\ stopCalled = [s \in Conns |-> FALSE]
  /\ cbLink = [t \in Threads |-> 0]

\* ---------------------------------------------------------- specification
LinkClosedStep(t) ==
  \/ LinkClosedClient(t)
  \/ LinkClosedLock(t)
  \/ LinkClosedRemove(t)

ShutdownStep ==
  \/ EnvSignal
  \/ ShutdownLock
  \/ ShutdownLoop
  \/ ShutdownClear

HandleClientStep(s) ==
  \/ EnvAccept(s)
  \/ HandleRecallFails(s)
  \/ HandleConnect(s)
  \/ HandleWaitEnds(s)
  \/ HandleWaitTimesOut(s)
  \/ HandleRemove(s)

ClientEstablishedStep(s) ==
  \/ EnvLinkEstablished(s)
  \/ Established(s)

ServerEstablishedStep(s) ==
  \/ EnvInboundLink(s)
  \/ ServerConnectFails(s)
  \/ ServerConnectOk(s)
  \/ StartRunning(s)
  \/ StartForwarding(s)

PumpStep(s) ==
  \/ PumpLoop(s)
  \/ EnvRecvData(s)
  \/ EnvRecvEnds(s)
  \/ PumpFlush(s)
  \/ PumpFlushClosed(s)
  \/ PumpFlushFails(s)

ReadyStep(s, k) ==
  \/ ReadyRead(s, k)
  \/ ReadySend(s, k)
  \/ ReadySendClosed(s, k)
  \/ ReadySendFails(s, k)

Next ==
  \/ \E t \in Threads : StopBody(t)
  \/ \E t \in Threads : LinkClosedStep(t)
  \/ ShutdownStep
  \/ \E s \in Conns : HandleClientStep(s)
  \/ \E s \in Conns : ClientEstablishedStep(s)
  \/ \E s \in Conns : ServerEstablishedStep(s)
  \/ \E s \in Conns : EnvLinkDown(s)
  \/ \E s \in Conns : PumpStep(s)
  \/ \E s \in Conns : EnvDeliver(s)
  \/ \E s \in Conns : \E k \in 1..MaxCallbacks : ReadyStep(s, k)

Spec == Init /\ [][Next]_vars

\* A thread that has entered stop() goes on running: stop() waits for
\* nothing before it has closed the socket and the buffer.
SpecFair == Spec /\ WF_vars(\E t \in Threads : StopBody(t))

\* ------------------------------------------------- the start of the ingress
\* A process of the ingress role from the call of start(), for every
\* configured destination hash of at most MaxHashChars characters.
InitStart ==
  /\ role = "ingress"
  /\ exiting = FALSE
  /\ events = 0
  /\ destHash \in UNION {[1..n -> HashChars] : n \in 0..MaxHashChars}
  /\ reticulum = FALSE
  /\ exitStatus = -1
  /\ pathTimeout \in 0..MaxPathTimeout
  /\ waited = 0
  /\ announceInterval = 0
  /\ announces = 0
  /\ reannounces = 0
  /\ pc = [t \in Threads |-> IF t = Main THEN "start" ELSE "idle"]
  /\ stk = [t \in Threads |-> <<>>]
  /\ bridgeRunning = FALSE
  /\ listenOpen = FALSE
  /\ clients = <<>>
  /\ clientsLock = NoThread
  /\ snap = <<>>
  /\ created = [s \in Conns |-> FALSE]
  /\ running = [s \in Conns |-> FALSE]
  /\ ready = [s \in Conns |-> FALSE]
  /\ failed = [s \in Conns |-> FALSE]
  /\ buffer = [s \in Conns |-> "none"]
  /\ bufLock = [s \in Conns |-> NoThread]
  /\ sock = [s \in Conns |-> "none"]
  /\ link = [s \in Conns |-> "none"]
  /\ cbSet = [s \in Conns |-> FALSE]
  /\ lcFired = [s \in Conns |-> FALSE]
  /\ sockCloses = [s \in Conns |-> 0]
  /\ bufCloses = [s \in Conns |-> 0]
  /\ sockIn = [s \in Conns |-> <<>>]
  /\ wbuf = [s \in Conns |-> <<>>]
  /\ chanOut = [s \in Conns |-> <<>>]
  /\ rnsBuf = [s \in Conns |-> <<>>]
  /\ delivered = [s \in Conns |-> 0]
  /\ sockOut = [s \in Conns |-> <<>>]
  /\ data = [t \in Threads |-> NoData]
  /\ callee = [t \in Threads |-> 0]
  /\ stopCalled = [s \in Conns |-> FALSE]
  /\ cbLink = [t \in Threads |-> 0]

StartStep ==
  \/ StartParse
  \/ StartReticulum
  \/ StartPathFound
  \/ StartPathWaits
  \/ StartPathTimesOut
  \/ StartListen

NextStart ==
  \/ StartStep
  \/ \E s \in Conns : EnvAccept(s)

SpecStart == InitStart /\ [][NextStart]_vars

\* -------------------------------------------------- the start of the egress
\* A process of the egress role from the call of start(), for every
\* configured announce interval of -1..MaxInterval.
InitAnnounce ==
  /\ role = "egress"
  /\ exiting = FALSE
  /\ events = 0
  /\ destHash = <<>>
  /\ reticulum = FALSE
  /\ exitStatus = -1
  /\ pathTimeout = 0
  /\ waited = 0
  /\ announceInterval \in -1..MaxInterval
  /\ announces = 0
  /\ reannounces = 0
  /\ pc = [t \in Threads |-> IF t = Main THEN "sstart" ELSE "idle"]
  /\ stk = [t \in Threads |-> <<>>]
  /\ bridgeRunning = FALSE
  /\ listenOpen = FALSE
  /\ clients = <<>>
  /\ clientsLock = NoThread
  /\ snap = <<>>
  /\ created = [s \in Conns |-> FALSE]
  /\ running = [s \in Conns |-> FALSE]
  /\ ready = [s \in Conns |-> FALSE]
  /\ failed = [s \in Conns |-> FALSE]
  /\ buffer = [s \in Conns |-> "none"]
  /\ bufLock = [s \in Conns |-> NoThread]
  /\ sock = [s \in Conns |-> "none"]
  /\ link = [s \in Conns |-> "none"]
  /\ cbSet = [s \in Conns |-> FALSE]
  /\ lcFired = [s \in Conns |-> FALSE]
  /\ sockCloses = [s \in Conns |-> 0]
  /\ bufCloses = [s \in Conns |-> 0]
  /\ sockIn = [s \in Conns |-> <<>>]
  /\ wbuf = [s \in Conns |-> <<>>]
  /\ chanOut = [s \in Conns |-> <<>>]
  /\ rnsBuf = [s \in Conns |-> <<>>]
  /\ delivered = [s \in Conns |-> 0]
  /\ sockOut = [s \in Conns |-> <<>>]
  /\ data = [t \in Threads |-> NoData]
  /\ callee = [t \in Threads |-> 0]
  /\ stopCalled = [s \in Conns |-> FALSE]
  /\ cbLink = [t \in Threads |-> 0]

ServerStartStep ==
  \/ ServerStart
  \/ ServerAnnounce
  \/ ServerStartLoop

AnnounceStep ==
  \/ AnnounceLoop
  \/ AnnounceTest
  \/ AnnounceSend

NextAnnounce ==
  \/ ServerStartStep
  \/ AnnounceStep
  \/ EnvSignal
  \/ ShutdownLock
  \/ ShutdownClear
  \/ ShutdownAgain

SpecAnnounce == InitAnnounce /\ [][NextAnnounce]_vars

\* ------------------------------------------------- the exit of the process
\* The process with the end of signal_handler and with signals that arrive
\* during shutdown().
ExitStep ==
  \/ ShutdownAgain
  \/ EnvSignalInShutdown

NextExit ==
  \/ Next
  \/ ExitStep

SpecExit == Init /\ [][NextExit]_vars

\* ================================================================ properties
ThreadsOf(s) == {t \in ConnThreads : t[2] = s}

\* Where a thread stays unless the environment acts: it has not started, it
\* has returned, or it is blocked in recv().
RestingPc == {"idle", "done", "hc_norecall", "hc_done", "hc_gaveup",
              "est_done", "sest_noconn", "sest_done", "recv_wait"}

\* No thread has a step of the program left to take for connection s.
Settled(s) ==
  /\ \A t \in ThreadsOf(s) : pc[t] \in RestingPc
  /\ \A t \in Threads : pc[t] \in {"stop_body", "slc_rm"} => callee[t] # s
  /\ \A t \in Threads : pc[t] \in {"lc_failed", "slc_lock"} => cbLink[t] # s
  /\ pc[Main] \in {"serving", "sd_done"}

\* stop() has run its teardown for s
Stopped(s) == created[s] /\ ~running[s] /\ sockCloses[s] >= 1

\* C1: however many threads call stop() on one Session, and however the
\* calls overlap, the teardown sequence (close the socket, close the channel
\* buffer, tear the link down) is executed by one caller only.
C1_TeardownOnce ==
  \A s \in Conns : sockCloses[s] <= 1 /\ bufCloses[s] <= 1

\* C2: a Session that was added to the registry and has stopped is no longer
\* in the registry once the program has nothing left to do for it.
C2_StoppedLeavesRegistry ==
  \A s \in Conns : (Stopped(s) /\ Settled(s)) => ~InList(clients, s)

\* C3: shutdown() terminates: the thread that runs it never waits for the
\* registry lock it holds itself, also when stopping a Session delivers the
\* link-closed callback on that same thread.
C3_ShutdownNotBlockedOnItself ==
  ~(pc[Main] = "slc_lock" /\ clientsLock = Main)

\* The chunks of q are in the order of their indices.
InOrder(q) == \A i, j \in 1..Len(q) : i < j => q[i][2] < q[j][2]

\* C4: when several data-ready callbacks of one Session overlap, the chunks
\* arrive at the TCP socket in the order they were read from the channel.
C4_CallbackOrder ==
  \A s \in Conns : InOrder(sockOut[s])

IsPrefix(p, q) == Len(p) <= Len(q) /\ \A i \in 1..Len(p) : p[i] = q[i]

\* C5: the chunks the forwarding thread reads from the socket are written to
\* the channel buffer in the order read, none lost and none repeated, and
\* each one is flushed before the thread asks the socket for the next.
C5_PumpOrder ==
  \A s \in Conns :
    /\ IsPrefix(chanOut[s] \o wbuf[s], sockIn[s])
    /\ Len(sockIn[s]) <= Len(chanOut[s]) + 1
    /\ pc[PUMP(s)] \in {"loop", "recv_wait"}
         => chanOut[s] = sockIn[s] /\ wbuf[s] = <<>>

\* Two chunks have gone through in order and the thread waits for a third.
C5_Witness ==
  \E s \in Conns : /\ Len(chanOut[s]) = 2
                   /\ chanOut[s] = sockIn[s]
                   /\ running[s]
                   /\ pc[PUMP(s)] = "recv_wait"

\* C6: once the transport has reported the link of a Session closed and the
\* program has nothing left to do for it, the Session is stopped and its
\* socket is closed; on egress also when the link closed while
\* _link_established was still connecting or had not yet started the Session.
C6_LinkClosedStops ==
  \A s \in Conns :
    (lcFired[s] /\ created[s] /\ Settled(s)) => ~running[s] /\ sock[s] = "closed"

\* C7: when the wait of the ingress for the link has ended without the
\* Session being established and the connection has been given up, its
\* socket is closed, it is out of the registry, and it has no channel buffer
\* and no forwarding thread, however late the link is established.
C7_GivenUpStaysDown ==
  \A s \in Conns :
    pc[HC(s)] = "hc_gaveup" => /\ sock[s] = "closed"
                               /\ ~InList(clients, s)
                               /\ buffer[s] = "none"
                               /\ pc[PUMP(s)] = "idle"

\* The handler of inbound link s has failed to connect to the server.
ConnectHasFailed(s) ==
  /\ role = "egress"
  /\ pc[EST(s)] \notin {"idle", "sest_conn", "start_run", "start_buf", "sest_done"}

\* C8: when the TCP connection of the egress to the server fails, the link
\* is torn down, no Session is created or registered for it, it has no socket,
\* no channel buffer and no forwarding thread, and the handler changes no
\* entry of the registry.
C8_ConnectFailure ==
  /\ [](\A s \in Conns :
          ConnectHasFailed(s) => /\ link[s] = "closed"
                                 /\ ~created[s]
                                 /\ ~InList(clients, s)
                                 /\ sock[s] = "none"
                                 /\ buffer[s] = "none"
                                 /\ pc[PUMP(s)] = "idle")
  /\ [][\A s \in Conns :
          (ConnectHasFailed(s)' /\ pc'[EST(s)] # pc[EST(s)]) => clients' = clients]_vars

\* The handler has returned after a failed connect while another Session runs.
C8_Witness ==
  \E s, d \in Conns : /\ pc[EST(s)] = "sest_noconn"
                      /\ link[s] = "closed"
                      /\ lcFired[s]
                      /\ d # s
                      /\ running[d]
                      /\ InList(clients, d)

\* The chunks of q all belong to connection s.
AllOf(q, s) == \A i \in 1..Len(q) : q[i][1] = s

\* C9: a failure on one Session stops that Session and no other: a thread
\* working for connection s stops only s, stopping s changes no field of any
\* other Session, and no chunk of one Session reaches the channel or the
\* socket of another.
C9_Isolation ==
  /\ [](\A s \in Conns : /\ AllOf(chanOut[s], s)
                         /\ AllOf(wbuf[s], s)
                         /\ AllOf(sockOut[s], s))
  /\ [][\A t \in ConnThreads :
          (pc[t] = "stop_body" /\ pc'[t] # "stop_body") =>
            /\ callee[t] = t[2]
            /\ \A d \in Conns \ {t[2]} :
                 /\ running'[d] = running[d]
                 /\ sock'[d] = sock[d]
                 /\ buffer'[d] = buffer[d]
                 /\ link'[d] = link[d]
                 /\ InList(clients', d) = InList(clients, d)]_vars

\* One Session has been stopped by a failure while another one goes on and
\* has forwarded data.
C9_Witness ==
  \E s, d \in Conns : /\ s # d
                      /\ Stopped(s)
                      /\ pc[Main] = "serving"
                      /\ running[d]
                      /\ sock[d] = "open"
                      /\ buffer[d] = "open"
                      /\ link[d] = "active"
                      /\ Len(chanOut[d]) = 1

\* The characters of the configured hash that are neither ":" nor " ".
HashDigits(str) == SelectSeq(str, LAMBDA c : c \notin {":", " "})

\* C10: when the configured destination hash, its ":" and " " removed, has
\* not exactly (TRUNCATED_HASHLENGTH / 8) * 2 characters, start() ends the
\* process with a non-zero status and never initialises the transport, opens
\* the listener or accepts a connection.
C10_WrongLengthExits ==
  Len(HashDigits(destHash)) # DestLen =>
    /\ pc[Main] \in {"start", "exited"}
    /\ pc[Main] = "exited" => exitStatus > 0
    /\ ~reticulum
    /\ ~listenOpen
    /\ \A s \in Conns : sock[s] = "none" /\ pc[HC(s)] = "idle"

\* The process has exited on a hash that has the right number of characters
\* only as long as its separator is counted.
C10_Witness ==
  /\ pc[Main] = "exited"
  /\ exitStatus = 1
  /\ Len(destHash) = DestLen
  /\ Len(HashDigits(destHash)) = DestLen - 1
  /\ IsHex(HashDigits(destHash))

\* C11: the path wait of the ingress goes on only while no more than the
\* timeout has passed since it started; when no path is found it ends in an
\* exit with status 1 no later than the timeout plus one polling interval
\* after its start, and the listener is never opened.
C11_BoundedPathWait ==
  /\ pc[Main] = "path" => waited <= pathTimeout
  /\ (pc[Main] = "exited" /\ reticulum) =>
       /\ exitStatus = 1
       /\ waited > pathTimeout
       /\ waited <= pathTimeout + PollTicks
       /\ ~listenOpen

\* The wait has ended in an exit exactly one polling interval after a
\* timeout that is not zero.
C11_Witness ==
  /\ pc[Main] = "exited"
  /\ reticulum
  /\ pathTimeout > 0
  /\ waited = pathTimeout + PollTicks
  /\ ~listenOpen

\* C12: the write and flush of the forwarding thread and the read of the
\* readiness callback never work on the channel buffer of one Session at
\* the same time: while the thread is between its write and its flush it
\* holds the lock of the buffer, and no callback reads the buffer then.
C12_BufferExclusion ==
  /\ [](\A s \in Conns : /\ bufLock[s] \in {NoThread, PUMP(s)}
                         /\ pc[PUMP(s)] = "flush" => bufLock[s] = PUMP(s))
  /\ [][\A s \in Conns :
          Len(rnsBuf'[s]) < Len(rnsBuf[s]) => pc[PUMP(s)] # "flush"]_vars

\* The forwarding thread is between write and flush while a callback of the
\* same Session has data to read and waits for the lock.
C12_Witness ==
  \E s \in Conns : \E k \in 1..MaxCallbacks :
    /\ pc[PUMP(s)] = "flush"
    /\ wbuf[s] # <<>>
    /\ pc[CB(s, k)] = "cb_read"
    /\ running[s]
    /\ buffer[s] = "open"
    /\ rnsBuf[s] # <<>>

\* C13: whenever a Session is Closed (stop() has run for it), its socket is
\* closed, it has no open channel buffer, whether the buffer existed when
\* stop() ran or was created afterwards, and its link is closed or being
\* torn down, whatever state the link was in when stop() ran.
C13_ClosedReleasesAll ==
  \A s \in Conns :
    Stopped(s) => /\ sock[s] = "closed"
                  /\ buffer[s] # "open"
                  /\ link[s] \notin {"pending", "active"}

\* A call of stop() on s has been made and no thread is still inside stop()
\* for s.
StopReturned(s) ==
  /\ stopCalled[s]
  /\ \A t \in Threads : pc[t] = "stop_body" => callee[t] # s

\* C14: Closed is terminal: once stop() has been called on a Session, by
\* whatever path, and has returned, no step sets its running flag, creates
\* a channel buffer for it or starts its forwarding thread.
C14_ClosedIsTerminal ==
  [][\A s \in Conns :
       StopReturned(s) => /\ running'[s] => running[s]
                          /\ buffer'[s] = "open" => buffer[s] = "open"
                          /\ pc[PUMP(s)] = "idle" => pc'[PUMP(s)] = "idle"]_vars

\* A Session is active: its running flag is set and its forwarding paths
\* have been started.
Active(s) == running[s] /\ buffer[s] = "open" /\ pc[PUMP(s)] # "idle"

\* C15: every active Session is in the registry of its role, so that a drain
\* of the registry reaches every live Session.
C15_ActiveIsRegistered ==
  \A s \in Conns : Active(s) => InList(clients, s)

\* C16: the registry lock is held around changes of the registry only: no
\* thread holds clients_lock while it executes the stop() of a Session.
C16_NoStopUnderLock ==
  \A t \in Threads : pc[t] = "stop_body" => clientsLock # t

\* Some thread is inside stop() for s.
InStop(s) == \E t \in Threads : pc[t] = "stop_body" /\ callee[t] = s

\* C17: when recv() of the forwarding thread returns nothing or fails, or
\* its write or flush fails, the thread leaves the loop and calls stop() on
\* its Session; when the readiness callback fails to read the channel or to
\* write to the socket it calls stop(); a running Session on which stop()
\* is called reaches Closed.
C17_FailureStops ==
  /\ [][\A s \in Conns :
          /\ (pc[PUMP(s)] = "recv_wait" /\ pc'[PUMP(s)] \notin {"recv_wait", "flush"})
               => stopCalled'[s] /\ (running[s] => pc'[PUMP(s)] = "stop_body")
          /\ (pc[PUMP(s)] = "flush" /\ pc'[PUMP(s)] \notin {"flush", "loop"})
               => stopCalled'[s] /\ (running[s] => pc'[PUMP(s)] = "stop_body")
          /\ \A k \in 1..MaxCallbacks :
               /\ (pc[CB(s, k)] = "cb_send" /\ pc'[CB(s, k)] # "cb_send"
                     /\ sockOut'[s] = sockOut[s])
                    => stopCalled'[s] /\ (running[s] => pc'[CB(s, k)] = "stop_body")
               /\ (pc[CB(s, k)] = "cb_read" /\ pc'[CB(s, k)] # "cb_read"
                     /\ running[s] /\ buffer[s] # "open")
                    => stopCalled'[s] /\ pc'[CB(s, k)] = "stop_body"]_vars
  /\ \A s \in Conns : InStop(s) ~> Stopped(s)

\* The forwarding thread has ended on a recv() that returned nothing or
\* failed, and its Session, which was forwarding, is Closed.
C17_Witness ==
  \E s \in Conns : /\ pc[PUMP(s)] = "done"
                   /\ chanOut[s] # <<>>
                   /\ Stopped(s)
                   /\ sockCloses[s] = 1
                   /\ buffer[s] = "closed"

\* C18: cancellation goes through the running flag: once a Session is
\* Closed and the program has nothing left to do for it, its forwarding
\* thread has left its loop and ended.
C18_PumpEndsAfterStop ==
  \A s \in Conns :
    (Stopped(s) /\ Settled(s)) => pc[PUMP(s)] \in {"idle", "done"}

\* C19 (as the code has it): on the egress start() makes exactly one initial
\* announce whatever the configured interval is, the announce loop runs and
\* re-announces only if the interval is above 0, and an iteration of the loop
\* that tests the running flag after shutdown cleared it sends nothing and
\* ends the loop.
C19_Announces ==
  /\ [](announces = IF pc[Main] \in {"sstart", "s_announce"} THEN 0 ELSE 1)
  /\ [](announceInterval <= 0 => reannounces = 0 /\ pc[ANN] = "idle")
  /\ [][~bridgeRunning /\ pc[ANN] \in {"ann_loop", "ann_sleep"}
          => /\ reannounces' = reannounces
             /\ pc'[ANN] \in {pc[ANN], "ann_loop", "done"}]_vars

\* The announce loop has re-announced and has ended after the shutdown, and
\* start() made its one announce
C19_Witness ==
  /\ announceInterval > 0
  /\ announces = 1
  /\ reannounces >= 1
  /\ ~bridgeRunning
  /\ pc[ANN] = "done"

\* C19 (as the claim has it): no announce is sent once shutdown has cleared the
\* running flag.
C19_NoAnnounceAfterShutdown ==
  [][reannounces' > reannounces => bridgeRunning]_vars

\* C20: shutdown() always returns, also a run that begins while an earlier run
\* is still in progress: no run of shutdown() waits for the registry lock
\* while its own thread holds it.
C20_ShutdownReturns == ~(pc[Main] = "sd_lock" /\ clientsLock = Main)

=============================================================================
